---- MODULE Spec2Model ----
(***************************************************************************)
(* Model of the ETF encoder of github.com/Gophigure/erltf (encode.go and   *)
(* the term identifier table).                                             *)
(*                                                                         *)
(* Byte strings (the encoder's buffer, Go strings, []byte arguments) are   *)
(* kept run-length encoded: a sequence of runs <<b, n>>, n >= 1, adjacent  *)
(* runs holding different bytes.  The representation is lossless and       *)
(* canonical (two byte strings are equal iff their runs are equal); it     *)
(* lets the model hold the 1048576-byte buffer NewEncoder allocates and    *)
(* the 65535-byte strings the String case distinguishes.                   *)
(*                                                                         *)
(* 64-bit machine integers are kept as their little-endian two's           *)
(* complement bytes, because TLC's integers are 32 bits wide.              *)
(***************************************************************************)
EXTENDS Integers, Sequences, FiniteSets, TLC

\* ------------------------------------------------------------------ bounds

\* Number of encoder calls made on one encoder in a behaviour.
MaxCalls == 1

\* Number of encoder calls made on one encoder in a behaviour of SpecSeq, the
\* specification of call sequences.
MaxSeqCalls == 2

\* Frames of encoder.encode the goroutine stack holds before the Go runtime
\* ends the program with "fatal error: stack overflow".
MaxStackFrames == 1000

\* ------------------------------------------------------- program constants

TermFormatVersion == 131

NewFloatExt == 70
SmallIntegerExt == 97
NilExt == 106
StringExt == 107
ListExt == 108
BinaryExt == 109
SmallBigExt == 110
LargeBigExt == 111
MapExt == 116
SmallAtomUTF8Ext == 119

DefaultBufferSize == 1048576

DefaultEncodeRecursionDepth == 256

MaxUint16 == 65535

MaxInt32 == 2147483647

\* length > math.MaxUint32, for a non-negative length (MaxUint32 = 65536*65536 - 1
\* is not a TLC integer).
ExceedsMaxUint32(length) == length \div 65536 >= 65536

\* ------------------------------------------------------------ byte strings

\* n copies of byte b.
Rep(b, n) == IF n = 0 THEN << >> ELSE << <<b, n>> >>

\* Concatenation of two run-length encoded byte strings.
Cat(a, b) ==
  IF a = << >> THEN b
  ELSE IF b = << >> THEN a
  ELSE IF a[Len(a)][1] = b[1][1]
       THEN SubSeq(a, 1, Len(a) - 1)
              \o << <<b[1][1], a[Len(a)][2] + b[1][2]>> >>
              \o Tail(b)
       ELSE a \o b

RECURSIVE Lit(_)
\* The run-length encoding of the plain byte sequence s.
Lit(s) == IF s = << >> THEN << >> ELSE Cat(<< <<Head(s), 1>> >>, Lit(Tail(s)))

RECURSIVE BLen(_)
\* len() of a byte string.
BLen(a) == IF a = << >> THEN 0 ELSE a[1][2] + BLen(Tail(a))

RECURSIVE At(_, _)
\* The byte at 0-based offset i of byte string a (i < BLen(a)).
At(a, i) == IF i < a[1][2] THEN a[1][1] ELSE At(Tail(a), i - a[1][2])

RECURSIVE Take(_, _)
\* The first k bytes of byte string a (k <= BLen(a)).
Take(a, k) ==
  IF k = 0 \/ a = << >> THEN << >>
  ELSE IF k >= a[1][2] THEN Cat(<< a[1] >>, Take(Tail(a), k - a[1][2]))
       ELSE << <<a[1][1], k>> >>

RECURSIVE Drop(_, _)
\* Byte string a without its first k bytes (k <= BLen(a)).
Drop(a, k) ==
  IF k = 0 \/ a = << >> THEN a
  ELSE IF k >= a[1][2] THEN Drop(Tail(a), k - a[1][2])
       ELSE << <<a[1][1], a[1][2] - k>> >> \o Tail(a)

\* a is a prefix of b.
IsPrefix(a, b) == BLen(a) <= BLen(b) /\ Take(b, BLen(a)) = a

\* binary.BigEndian.AppendUint32(buf, uint32(n)), the four bytes appended.
BE32(n) == << (n \div 16777216) % 256, (n \div 65536) % 256, (n \div 256) % 256, n % 256 >>

\* binary.LittleEndian.AppendUint16(buf, uint16(n)), the two bytes appended.
LE16(n) == << n % 256, (n \div 256) % 256 >>

\* The precomputed atom buffers.
nilBuf == Lit(<< SmallAtomUTF8Ext, 3, 110, 105, 108 >>)
trueBuf == Lit(<< SmallAtomUTF8Ext, 4, 116, 114, 117, 101 >>)
falseBuf == Lit(<< SmallAtomUTF8Ext, 5, 102, 97, 108, 115, 101 >>)

\* --------------------------------------------------------------- Go values

\* A Go value as reflect sees it.  kind is its reflect.Kind ("invalid" for an
\* untyped nil or a nil interface value).  Per kind:
\*   bool                b, and named (a defined type whose underlying type is bool)
\*   intN, uintN         le: the value's bytes in memory, little-endian two's complement
\*   float32, float64    le: math.Float64bits(val.Float()), little-endian
\*   string              str: its bytes
\*   pointer             a chain of `levels` pointers, each pointing at the next,
\*                       the last at elems[1], or nil when elems = << >>
\*                       (levels = 1, elems = <<x>> is &x; a chain is kept as one
\*                       record because TLC's own stack holds few nested
\*                       evaluations); self: the pointer points at itself
\*                       (type P *P; p = &p)
\*   array, slice        elems
\*   struct              fields: <<[name, tag, exported, val]>>, tag the erltf tag
\*   map                 keykind, pairs: <<[key, val]>> with distinct keys
Value(kind) ==
  [kind |-> kind, named |-> FALSE, b |-> FALSE, le |-> << >>, str |-> << >>,
   elems |-> << >>, levels |-> 0, self |-> FALSE, fields |-> << >>, pairs |-> << >>,
   keykind |-> ""]

NilV == Value("invalid")
BoolV(b) == [Value("bool") EXCEPT !.b = b]
NamedBoolV(b) == [Value("bool") EXCEPT !.b = b, !.named = TRUE]
IntV(kind, le) == [Value(kind) EXCEPT !.le = le]
Uint8V(x) == IntV("uint8", << x >>)
StringV(str) == [Value("string") EXCEPT !.str = str]
PtrChain(k, x) == [Value("pointer") EXCEPT !.levels = k, !.elems = << x >>]
PtrV(x) == PtrChain(1, x)
NilPtrV == [Value("pointer") EXCEPT !.levels = 1]
SelfPtrV == [Value("pointer") EXCEPT !.levels = 1, !.self = TRUE]
SliceV(elems) == [Value("slice") EXCEPT !.elems = elems]
ArrayV(elems) == [Value("array") EXCEPT !.elems = elems]
Field(name, tag, exported, val) ==
  [name |-> Lit(name), tag |-> Lit(tag), exported |-> exported, val |-> val]
StructV(fields) == [Value("struct") EXCEPT !.fields = fields]
Pair(key, val) == [key |-> key, val |-> val]
MapV(keykind, pairs) == [Value("map") EXCEPT !.keykind = keykind, !.pairs = pairs]

\* A reflect.Value passed as an `any`: a struct of three unexported fields
\* (typ_ *abi.Type, ptr unsafe.Pointer, flag uintptr).
ReflectValue(x) ==
  StructV(<< Field(<< 116, 121, 112, 95 >>, << >>, FALSE, PtrV(Value("struct"))),
             Field(<< 112, 116, 114 >>, << >>, FALSE,
                   [Value("unsafepointer") EXCEPT !.elems = << x >>]),
             Field(<< 102, 108, 97, 103 >>, << >>, FALSE, Value("uintptr")) >>)

\* val.Index(i) of a string, array or slice (0-based).
Index(v, i) == IF v.kind = "string" THEN Uint8V(At(v.str, i)) ELSE v.elems[i + 1]

\* val.Len() of a string, array, slice or map.
ValLen(v) ==
  IF v.kind = "string" THEN BLen(v.str)
  ELSE IF v.kind = "map" THEN Len(v.pairs)
  ELSE Len(v.elems)

\* ------------------------------------------------------- 64-bit arithmetic

Zero64 == << 0, 0, 0, 0, 0, 0, 0, 0 >>

\* val.Int(): the value widened to int64.
SignExtend(le) ==
  le \o [i \in 1..(8 - Len(le)) |-> IF le[Len(le)] >= 128 THEN 255 ELSE 0]

\* val.Uint(): the value widened to uint64.
ZeroExtend(le) == le \o [i \in 1..(8 - Len(le)) |-> 0]

RECURSIVE AddOne(_)
\* x + 1, wrapping.
AddOne(x) ==
  IF x = << >> THEN << >>
  ELSE IF x[1] = 255 THEN << 0 >> \o AddOne(Tail(x))
       ELSE << x[1] + 1 >> \o Tail(x)

\* -d on int64 (wraps for math.MinInt64).
Neg64(x) == AddOne([i \in 1..8 |-> 255 - x[i]])

\* d < 0 on int64.
IsNeg64(x) == x[8] >= 128

\* i >>= 8 on int64 (arithmetic shift) and on uint64 (logical shift).
Sar8(x) == Tail(x) \o << IF IsNeg64(x) THEN 255 ELSE 0 >>
Shr8(x) == Tail(x) \o << 0 >>

Reverse(s) == [i \in 1..Len(s) |-> s[Len(s) + 1 - i]]

\* ------------------------------------------------------------------- state

VARIABLES
  AlwaysEncodeStringsAsBinary, \* the package variable; a program may set it
  bufArg,                      \* the []byte handed to NewEncoder
  buf,                         \* the content of the encoder's bytes.Buffer
  last,                        \* the last call on the encoder and what it returned
  calls,                       \* the number of encode calls made so far
  status                       \* "ok", or "dead" once the runtime ended the program

vars == << AlwaysEncodeStringsAsBinary, bufArg, buf, last, calls, status >>

\* ------------------------------------------------------------ the encoder

\* What one call leaves behind: out, the bytes it appended to the buffer; n and
\* err, what it returned.  err is "nil", the name of the error value, "panic" for
\* a Go panic (n is then 0: nothing is returned) or "fatal" for the runtime's
\* stack overflow.
Res(out, n, err) == [out |-> out, n |-> n, err |-> err]

\* e.buf.Write(p): bytes.Buffer appends p and returns (len(p), nil).
BufWrite(p) == Res(p, BLen(p), "nil")

Panic == Res(<< >>, 0, "panic")
Fatal == Res(<< >>, 0, "fatal")

\* A caller that has appended acc.out and counted acc.n so far, after callee r.
Add(acc, r) == Res(Cat(acc.out, r.out), acc.n + r.n, "nil")
Abort(acc, r) ==
  Res(Cat(acc.out, r.out), IF r.err \in {"panic", "fatal"} THEN 0 ELSE acc.n, r.err)

encodeAsBinaryETF(v) ==
  LET length == BLen(v) IN
  IF ExceedsMaxUint32(length) THEN Res(<< >>, 0, "ErrStringTooLong")
  ELSE BufWrite(Cat(Lit(<< BinaryExt >> \o BE32(length)), v))

\* The Big Integer tag: make([]byte, 3, 3+val.Type().Size()); cap(buf) > 7.
bigTag(size) == IF 3 + size > 7 THEN LargeBigExt ELSE SmallBigExt

RECURSIVE signedLoop(_, _, _)
\* for i := d; i > 0; enc++ { buf[3+enc] = byte(i & 0xFF); i >>= 8 }, enc a byte.
\* Storing at an index that is not below len(buf) panics.
signedLoop(i, enc, b) ==
  IF IsNeg64(i) \/ i = Zero64 THEN [panic |-> FALSE, buf |-> b, enc |-> enc]
  ELSE IF 3 + enc >= Len(b) THEN [panic |-> TRUE, buf |-> b, enc |-> enc]
  ELSE signedLoop(Sar8(i), (enc + 1) % 256, [b EXCEPT ![3 + enc + 1] = i[1]])

RECURSIVE unsignedLoop(_, _, _)
\* The same loop on a uint64, enc an int.
unsignedLoop(i, enc, b) ==
  IF i = Zero64 THEN [panic |-> FALSE, buf |-> b, enc |-> enc]
  ELSE IF 3 + enc >= Len(b) THEN [panic |-> TRUE, buf |-> b, enc |-> enc]
  ELSE unsignedLoop(Shr8(i), enc + 1, [b EXCEPT ![3 + enc + 1] = i[1]])

\* case reflect.Int16, reflect.Int32, reflect.Int64
encodeSigned(v) ==
  LET tag == bigTag(Len(v.le))
      raw == SignExtend(v.le)
      neg == IsNeg64(raw)
      d == IF neg THEN Neg64(raw) ELSE raw
      loop == signedLoop(d, 0, << tag, 0, IF neg THEN 1 ELSE 0 >>)
      b == [loop.buf EXCEPT ![2] = loop.enc]
  IN IF loop.panic THEN Panic
     ELSE IF tag = SmallBigExt THEN BufWrite(Lit(b \o SubSeq(d, 1, 4)))
     ELSE BufWrite(Lit(b \o d))

\* case reflect.Uint16, reflect.Uint32, reflect.Uint64
encodeUnsigned(v) ==
  LET tag == bigTag(Len(v.le))
      d == ZeroExtend(v.le)
      loop == unsignedLoop(d, 0, << tag, 0, 0 >>)
      b == [loop.buf EXCEPT ![2] = loop.enc % 256, ![3] = 0]
  IN IF loop.panic THEN Panic
     ELSE IF tag = SmallBigExt THEN BufWrite(Lit(b \o SubSeq(d, 1, 4)))
     ELSE BufWrite(Lit(b \o d))

\* case reflect.Float32, reflect.Float64
encodeFloat(v) == BufWrite(Lit(<< NewFloatExt >> \o Reverse(v.le)))

\* case reflect.Bool: v.(bool) panics for a defined bool type.
encodeBool(v) ==
  IF v.named THEN Panic ELSE IF v.b THEN BufWrite(trueBuf) ELSE BufWrite(falseBuf)

\* The Uint8 case writing the identifier next to SmallIntegerExt in the table
\* (IntegerExt) instead.
encodeUint8WrongTag(v) == BufWrite(Lit(<< SmallIntegerExt + 1, v.le[1] >>))

\* case reflect.Uint8
encodeUint8(v) == BufWrite(Lit(<< SmallIntegerExt, v.le[1] >>))

\* mapped[tag] = x on the Go map the Struct case builds.
MapPut(pairs, key, x) ==
  IF \E i \in 1..Len(pairs) : pairs[i].key = key
  THEN [i \in 1..Len(pairs) |-> IF pairs[i].key = key THEN Pair(key, x) ELSE pairs[i]]
  ELSE Append(pairs, Pair(key, x))

RECURSIVE project(_, _, _)
\* The Struct case's loop over the fields, from field i on: a field tagged "-"
\* is skipped; val.Field(i).Interface() panics on an unexported field.
project(fields, i, mapped) ==
  IF i > Len(fields) THEN [panic |-> FALSE, mapped |-> mapped]
  ELSE LET f == fields[i]
           tag == IF f.tag = << >> THEN f.name ELSE f.tag
       IN IF f.tag = Lit(<< 45 >>) THEN project(fields, i + 1, mapped)
          ELSE IF ~f.exported THEN [panic |-> TRUE, mapped |-> mapped]
          ELSE project(fields, i + 1, MapPut(mapped, tag, f.val))

\* The kinds the first case of the switch panics on.
PanicKinds == {"chan", "func", "complex64", "complex128", "uintptr", "unsafepointer"}

RECURSIVE encode(_, _, _), encodeElements(_, _, _, _, _, _), encodePairs(_, _, _, _, _)

\* case reflect.Array, reflect.Slice, and the String case falling through.
encodeList(v, nest, sp) ==
  LET length == ValLen(v) IN
  IF ExceedsMaxUint32(length) THEN {Res(<< >>, 0, "ErrListTooLarge")}
  ELSE encodeElements(v, 0, length, nest, sp,
                      BufWrite(Lit(<< ListExt >> \o BE32(length))))

\* The element loop from index i on, then return e.buf.Write(nilBuf).
encodeElements(v, i, length, nest, sp, acc) ==
  IF i >= length THEN {Res(Cat(acc.out, nilBuf), BLen(nilBuf), "nil")}
  ELSE UNION { IF r.err # "nil" THEN {Abort(acc, r)}
               ELSE encodeElements(v, i + 1, length, nest, sp, Add(acc, r))
               : r \in encode(ReflectValue(Index(v, i)), nest - 1, sp + 1) }

\* case reflect.Map, and the Struct case falling through with val = mapped.
encodeMap(keykind, pairs, nest, sp) ==
  IF keykind # "string" THEN {Panic}
  ELSE LET length == Len(pairs) IN
       IF ExceedsMaxUint32(length) THEN {Res(<< >>, 0, "ErrTooManyPairs")}
       ELSE encodePairs(pairs, 1..length, nest, sp,
                        BufWrite(Lit(<< MapExt >> \o BE32(length))))

\* The MapRange loop over the pairs not yet visited; Go fixes no iteration order.
encodePairs(pairs, rest, nest, sp, acc) ==
  IF rest = {} THEN {acc}
  ELSE UNION { UNION {
         IF k.err # "nil" THEN {Abort(acc, k)}
         ELSE UNION { IF w.err # "nil" THEN {Abort(Add(acc, k), w)}
                      ELSE encodePairs(pairs, rest \ {i}, nest, sp, Add(Add(acc, k), w))
                      : w \in encode(pairs[i].val, nest - 1, sp + 1) }
         : k \in encode(StringV(pairs[i].key), nest - 1, sp + 1) }
       : i \in rest }

\* case reflect.Struct
encodeStruct(v, nest, sp) ==
  LET p == project(v.fields, 1, << >>) IN
  IF Len(v.fields) >= MaxInt32 \/ p.panic THEN {Panic}
  ELSE encodeMap("string", p.mapped, nest, sp)

\* case reflect.String
encodeString(v, nest, sp) ==
  LET length == BLen(v.str) IN
  IF AlwaysEncodeStringsAsBinary THEN {encodeAsBinaryETF(v.str)}
  ELSE IF length < MaxUint16
       THEN {BufWrite(Cat(Lit(<< StringExt >> \o LE16(length)), v.str))}
       ELSE encodeList(v, nest, sp)

\* case reflect.Pointer, reflect.Interface:
\*   return e.encode(reflect.ValueOf(v).Elem().Interface(), nest-1)
\* The case tests nothing before it calls encode again, so the v.levels calls a
\* chain of pointers makes are taken together here: each takes a stack frame and
\* one unit of nest.  A pointer that points at itself never leaves the case, and
\* the stack runs out.  Elem() of a nil pointer is the zero Value, on which
\* Interface() panics.
encodePointer(v, nest, sp) ==
  IF v.self \/ sp + v.levels > MaxStackFrames THEN {Fatal}
  ELSE IF v.elems = << >> THEN {Panic}
  ELSE encode(v.elems[1], nest - v.levels, sp + v.levels)

\* encoder.encode(v, nest) running in stack frame sp: the set of outcomes.
encode(v, nest, sp) ==
  IF sp > MaxStackFrames THEN {Fatal}
  ELSE IF v.kind = "invalid" THEN {BufWrite(nilBuf)}
  ELSE IF v.kind \in PanicKinds THEN {Panic}
  ELSE IF v.kind \in {"pointer", "interface"} THEN encodePointer(v, nest, sp)
  ELSE IF v.kind = "bool" THEN {encodeBool(v)}
  ELSE IF v.kind = "uint8" THEN {encodeUint8(v)}
  ELSE IF v.kind \in {"int16", "int32", "int64"} THEN {encodeSigned(v)}
  ELSE IF v.kind \in {"uint16", "uint32", "uint64"} THEN {encodeUnsigned(v)}
  ELSE IF v.kind \in {"float32", "float64"} THEN {encodeFloat(v)}
  ELSE IF v.kind = "string" THEN encodeString(v, nest, sp)
  ELSE IF v.kind \in {"array", "slice"} THEN encodeList(v, nest, sp)
  ELSE IF v.kind = "struct" THEN encodeStruct(v, nest, sp)
  ELSE IF v.kind = "map" THEN encodeMap(v.keykind, v.pairs, nest, sp)
  ELSE {Res(<< >>, 0, "ErrUnsupportedTypeEncode")}

\* NewEncoder(b): the content of the bytes.Buffer it returns.  b is
\* [isnil, data, cap]: data the len(b) bytes of the slice.  make([]byte,
\* DefaultBufferSize) is DefaultBufferSize zero bytes, bytes.NewBuffer takes the
\* slice as the buffer's initial content, WriteByte appends to it.
NewEncoder(b) ==
  LET initial ==
        IF b.isnil \/ b.cap = 0 THEN Rep(0, DefaultBufferSize)
        ELSE IF b.cap < DefaultBufferSize
             THEN Cat(b.data, Rep(0, DefaultBufferSize - BLen(b.data)))
             ELSE b.data
  IN Cat(initial, Lit(<< TermFormatVersion >>))

\* ------------------------------------------------------------------ inputs

Slice(isnil, data, cap) == [isnil |-> isnil, data |-> data, cap |-> cap]

\* nil; []byte{}; []byte{1, 2}; make([]byte, 0, DefaultBufferSize);
\* append(make([]byte, 0, DefaultBufferSize), 7, 8).
BufArgs ==
  { Slice(TRUE, << >>, 0),
    Slice(FALSE, << >>, 0),
    Slice(FALSE, Lit(<< 1, 2 >>), 2),
    Slice(FALSE, << >>, DefaultBufferSize),
    Slice(FALSE, Lit(<< 7, 8 >>), DefaultBufferSize) }

KeyA == Lit(<< 97 >>)
KeyB == Lit(<< 98 >>)
LongKey == Rep(107, MaxUint16)

NullValues == { NilV, NilPtrV, PtrV(NilV) }

PointerValues ==
  { PtrV(BoolV(TRUE)), PtrChain(DefaultEncodeRecursionDepth + 1, BoolV(TRUE)), SelfPtrV }

BoolValues == { BoolV(TRUE), BoolV(FALSE), NamedBoolV(TRUE) }

Uint8Values == { Uint8V(0), Uint8V(1), Uint8V(127), Uint8V(128), Uint8V(200), Uint8V(255) }

\* int(5), int8(-1), uint(7)
PlainIntValues ==
  { IntV("int", << 5, 0, 0, 0, 0, 0, 0, 0 >>), IntV("int8", << 255 >>),
    IntV("uint", << 7, 0, 0, 0, 0, 0, 0, 0 >>) }

\* int16: 0, 1, -1, -32768; int32: 0, 2^31-1; int64: 0, 2^32, -2^63
SignedValues ==
  { IntV("int16", << 0, 0 >>), IntV("int16", << 1, 0 >>),
    IntV("int16", << 255, 255 >>), IntV("int16", << 0, 128 >>),
    IntV("int32", << 0, 0, 0, 0 >>), IntV("int32", << 255, 255, 255, 127 >>),
    IntV("int64", Zero64), IntV("int64", << 0, 0, 0, 0, 1, 0, 0, 0 >>),
    IntV("int64", << 0, 0, 0, 0, 0, 0, 0, 128 >>) }

\* uint16: 0, 256; uint32: 0; uint64: 0, 2^64-1
UnsignedValues ==
  { IntV("uint16", << 0, 0 >>), IntV("uint16", << 0, 1 >>),
    IntV("uint32", << 0, 0, 0, 0 >>),
    IntV("uint64", Zero64),
    IntV("uint64", << 255, 255, 255, 255, 255, 255, 255, 255 >>) }

\* float64(1.0)
FloatValues == { IntV("float64", << 0, 0, 0, 0, 0, 0, 240, 63 >>) }

\* "", "hi", and strings of 65534, 65535 and 65536 bytes
StringValues ==
  { StringV(<< >>), StringV(Lit(<< 104, 105 >>)), StringV(Rep(97, MaxUint16 - 1)),
    StringV(Rep(97, MaxUint16)), StringV(Rep(97, MaxUint16 + 1)) }

\* []bool{}, [0]bool{}, []bool{true}, []byte{1, 2}
ListValues ==
  { SliceV(<< >>), ArrayV(<< >>), SliceV(<< BoolV(TRUE) >>),
    SliceV(<< Uint8V(1), Uint8V(2) >>) }

\* struct{A bool}; struct{A bool; B uint8 `erltf:"b"`}; struct{A bool; B uint8
\* `erltf:"-"`}; struct{A bool `erltf:"B"`; B uint8}; struct{A bool; b bool};
\* struct{b bool `erltf:"-"`; A any}
StructValues ==
  { StructV(<< Field(<< 65 >>, << >>, TRUE, BoolV(TRUE)) >>),
    StructV(<< Field(<< 65 >>, << >>, TRUE, BoolV(TRUE)),
               Field(<< 66 >>, << 98 >>, TRUE, Uint8V(200)) >>),
    StructV(<< Field(<< 65 >>, << >>, TRUE, BoolV(TRUE)),
               Field(<< 66 >>, << 45 >>, TRUE, Uint8V(200)) >>),
    StructV(<< Field(<< 65 >>, << 66 >>, TRUE, BoolV(TRUE)),
               Field(<< 66 >>, << >>, TRUE, Uint8V(200)) >>),
    StructV(<< Field(<< 65 >>, << >>, TRUE, BoolV(TRUE)),
               Field(<< 98 >>, << >>, FALSE, BoolV(FALSE)) >>),
    StructV(<< Field(<< 98 >>, << 45 >>, FALSE, BoolV(FALSE)),
               Field(<< 65 >>, << >>, TRUE, NilV) >>) }

\* map[string]bool{}; {"a": true}; map[string]any{"a": true, "b": uint8(200)};
\* map[int]bool{1: true}; map[string]any{"a": uint8(1), "b": int8(-1)};
\* map[string]*int{"a": nil}; map[string]bool{<65535 bytes>: true};
\* map[string]any{"a": map[string]any{"b": nil}}; map[string][]int{"a": {}}
MapValues ==
  { MapV("string", << >>),
    MapV("string", << Pair(KeyA, BoolV(TRUE)) >>),
    MapV("string", << Pair(KeyA, BoolV(TRUE)), Pair(KeyB, Uint8V(200)) >>),
    MapV("int", << Pair(KeyA, BoolV(TRUE)) >>),
    MapV("string", << Pair(KeyA, Uint8V(1)), Pair(KeyB, IntV("int8", << 255 >>)) >>),
    MapV("string", << Pair(KeyA, NilPtrV) >>),
    MapV("string", << Pair(LongKey, BoolV(TRUE)) >>),
    MapV("string", << Pair(KeyA, MapV("string", << Pair(KeyB, NilV) >>)) >>),
    MapV("string", << Pair(KeyA, SliceV(<< >>)) >>) }

OtherValues == { Value("chan") }

Values ==
  NullValues \cup PointerValues \cup BoolValues \cup Uint8Values \cup PlainIntValues
    \cup SignedValues \cup UnsignedValues \cup FloatValues \cup StringValues
    \cup ListValues \cup StructValues \cup MapValues \cup OtherValues

\* []byte arguments of EncodeAsBinaryETF and Write.
ByteSlices == { << >>, Lit(<< 1, 2, 3 >>) }

\* ----------------------------------------------------------------- actions

Call(op, v, p, r) == [op |-> op, v |-> v, p |-> p, out |-> r.out, n |-> r.n, err |-> r.err]

Init ==
  /\ AlwaysEncodeStringsAsBinary \in BOOLEAN
  /\ bufArg \in BufArgs
  /\ buf = NewEncoder(bufArg)
  /\ last = Call("NewEncoder", NilV, << >>, Res(Lit(<< TermFormatVersion >>), 0, "nil"))
  /\ calls = 0
  /\ status = "ok"

\* A call whose bytes are taken out of the buffer again when it fails.
ApplyRollback(op, v, p, r) ==
  /\ buf' = IF r.err = "nil" THEN Cat(buf, r.out) ELSE buf
  /\ last' = Call(op, v, p, r)
  /\ calls' = calls + 1
  /\ status' = IF r.err = "fatal" THEN "dead" ELSE "ok"
  /\ UNCHANGED << AlwaysEncodeStringsAsBinary, bufArg >>

\* The effect of one call with outcome r: its bytes are appended; a panic
\* unwinds to the caller, which may recover and go on using the encoder; a
\* stack overflow ends the program.
Apply(op, v, p, r) ==
  /\ buf' = Cat(buf, r.out)
  /\ last' = Call(op, v, p, r)
  /\ calls' = calls + 1
  /\ status' = IF r.err = "fatal" THEN "dead" ELSE "ok"
  /\ UNCHANGED << AlwaysEncodeStringsAsBinary, bufArg >>

\* func (e *encoder) EncodeAsETF(v any): e.encode(v, DefaultBufferSize)
EncodeAsETF(v) ==
  /\ status = "ok"
  /\ calls < MaxCalls
  /\ \E r \in encode(v, DefaultBufferSize, 1) : Apply("EncodeAsETF", v, << >>, r)

\* func (e *encoder) EncodeAsBinaryETF(v []byte)
EncodeAsBinaryETF(p) ==
  /\ status = "ok"
  /\ calls < MaxCalls
  /\ Apply("EncodeAsBinaryETF", NilV, p, encodeAsBinaryETF(p))

\* func (e *encoder) Write(p []byte): e.EncodeAsBinaryETF(p)
Write(p) ==
  /\ status = "ok"
  /\ calls < MaxCalls
  /\ Apply("Write", NilV, p, encodeAsBinaryETF(p))

Next ==
  \/ \E v \in Values : EncodeAsETF(v)
  \/ \E p \in ByteSlices : EncodeAsBinaryETF(p)
  \/ \E p \in ByteSlices : Write(p)

Spec == Init /\ [][Next]_vars

\* EncodeAsETF applied to every uint8 value, for the claim about the Uint8 case.
NextUint8 == \E x \in 0..255 : EncodeAsETF(Uint8V(x))

\* The encoders of a program that leaves AlwaysEncodeStringsAsBinary as declared.
InitDefault == Init /\ AlwaysEncodeStringsAsBinary = TRUE

SpecUint8 == InitDefault /\ [][NextUint8]_vars

\* Sequences of calls on one encoder.  The inputs are the ones that succeed and
\* the ones that fail at each point of a call: before anything is written
\* (int(5), a self-pointing pointer), after a list header ([]bool{true}, a long
\* string with the switch off), after a map header and some pairs.
SeqValues ==
  { NilV, BoolV(TRUE), Uint8V(200), IntV("int", << 5, 0, 0, 0, 0, 0, 0, 0 >>),
    SelfPtrV, StringV(Lit(<< 104, 105 >>)), StringV(Rep(97, MaxUint16)),
    SliceV(<< >>), SliceV(<< BoolV(TRUE) >>),
    StructV(<< Field(<< 65 >>, << >>, TRUE, BoolV(TRUE)),
               Field(<< 66 >>, << 98 >>, TRUE, Uint8V(200)) >>),
    MapV("string", << Pair(KeyA, Uint8V(1)), Pair(KeyB, IntV("int8", << 255 >>)) >>),
    MapV("string", << Pair(KeyA, NilPtrV) >>) }

SeqEncodeAsETF(v) ==
  /\ status = "ok"
  /\ calls < MaxSeqCalls
  /\ \E r \in encode(v, DefaultBufferSize, 1) : Apply("EncodeAsETF", v, << >>, r)

SeqEncodeAsBinaryETF(p) ==
  /\ status = "ok"
  /\ calls < MaxSeqCalls
  /\ Apply("EncodeAsBinaryETF", NilV, p, encodeAsBinaryETF(p))

SeqWrite(p) ==
  /\ status = "ok"
  /\ calls < MaxSeqCalls
  /\ Apply("Write", NilV, p, encodeAsBinaryETF(p))

NextSeq ==
  \/ \E v \in SeqValues : SeqEncodeAsETF(v)
  \/ \E p \in ByteSlices : SeqEncodeAsBinaryETF(p)
  \/ \E p \in ByteSlices : SeqWrite(p)

SpecSeq == Init /\ [][NextSeq]_vars

\* ------------------------------------------------- vocabulary of the claims

\* The last call was EncodeAsETF(v) with v of one of the kinds.
Encoded(kinds) == last.op = "EncodeAsETF" /\ last.v.kind \in kinds

\* EncodeAsETF(v) was the first call on the encoder NewEncoder returned.
FirstEncoded(v) == last.op = "EncodeAsETF" /\ calls = 1 /\ last.v = v

\* The byte strings EncodeAsETF(v) can append, and whether it always succeeds.
Outs(v) == { r.out : r \in encode(v, DefaultBufferSize, 1) }
Encodable(v) == \A r \in encode(v, DefaultBufferSize, 1) : r.err = "nil"

RECURSIVE MaxNesting(_)
\* The nesting of a value: one level per pointer, per sequence and per map or
\* struct entered.
MaxNesting(v) ==
  LET Deepest(S) == IF S = {} THEN 0 ELSE CHOOSE m \in S : \A k \in S : k <= m IN
  IF v.kind = "pointer"
    THEN v.levels + Deepest({ MaxNesting(v.elems[i]) : i \in 1..Len(v.elems) })
  ELSE IF v.kind \in {"array", "slice"}
    THEN IF v.elems = << >> THEN 0
         ELSE 1 + Deepest({ MaxNesting(v.elems[i]) : i \in 1..Len(v.elems) })
  ELSE IF v.kind = "struct"
    THEN IF v.fields = << >> THEN 0
         ELSE 1 + Deepest({ MaxNesting(v.fields[i].val) : i \in 1..Len(v.fields) })
  ELSE IF v.kind = "map"
    THEN IF v.pairs = << >> THEN 0
         ELSE 1 + Deepest({ MaxNesting(v.pairs[i].val) : i \in 1..Len(v.pairs) })
  ELSE 0

\* The input nests deeper than the budget: a cyclic input nests without end.
DeeperThan(v, budget) == v.self \/ MaxNesting(v) > budget

RECURSIVE Strip(_)
\* A little-endian magnitude without its high zero bytes.
Strip(m) ==
  IF m = << >> THEN << >>
  ELSE IF m[Len(m)] = 0 THEN Strip(SubSeq(m, 1, Len(m) - 1))
  ELSE m

SignedKinds == {"int", "int8", "int16", "int32", "int64"}
UnsignedKinds == {"uint", "uint16", "uint32", "uint64"}
BigKinds == SignedKinds \cup UnsignedKinds

\* v < 0, and the smallest little-endian byte sequence that holds |v|.
Negative(v) == v.kind \in SignedKinds /\ IsNeg64(SignExtend(v.le))
Magnitude(v) ==
  Strip(IF Negative(v) THEN Neg64(SignExtend(v.le)) ELSE ZeroExtend(v.le))

RECURSIVE PairStreams(_, _)
\* The byte strings that hold, in some order, each pair of `rest` as the
\* encoding of its key immediately followed by the encoding of its value.
PairStreams(pairs, rest) ==
  IF rest = {} THEN { << >> }
  ELSE UNION { { Cat(Cat(k, w), t) : k \in Outs(StringV(pairs[i].key)),
                                     w \in Outs(pairs[i].val),
                                     t \in PairStreams(pairs, rest \ {i}) }
               : i \in rest }

\* The Map terms of a sequence of pairs: [116] ++ big-endian count ++ the pairs.
MapForms(pairs) ==
  { Cat(Lit(<< MapExt >> \o BE32(Len(pairs))), t)
    : t \in PairStreams(pairs, 1..Len(pairs)) }

RECURSIVE ElementStreams(_, _)
\* The encodings of the elements of a sequence from index i on, in index order.
ElementStreams(elems, i) ==
  IF i > Len(elems) THEN { << >> }
  ELSE { Cat(e, t) : e \in Outs(elems[i]), t \in ElementStreams(elems, i + 1) }

\* The List terms of a sequence: [108] ++ big-endian count ++ elements ++ [106].
ListForms(elems) ==
  { Cat(Cat(Lit(<< ListExt >> \o BE32(Len(elems))), t), Lit(<< NilExt >>))
    : t \in ElementStreams(elems, 1) }

RECURSIVE FieldPairs(_, _)
\* One pair per field not tagged "-": its tag, or its name when it has none.
FieldPairs(fields, i) ==
  IF i > Len(fields) THEN << >>
  ELSE LET f == fields[i] IN
       IF f.tag = Lit(<< 45 >>) THEN FieldPairs(fields, i + 1)
       ELSE << Pair(IF f.tag = << >> THEN f.name ELSE f.tag, f.val) >>
              \o FieldPairs(fields, i + 1)

BinaryTerm(str) == Cat(Lit(<< BinaryExt >> \o BE32(BLen(str))), str)
StringTerm(str) == Cat(Lit(<< StringExt >> \o LE16(BLen(str))), str)

\* -------------------------------------------------------------- the claims

\* C1: an input nested deeper than the depth budget DefaultEncodeRecursionDepth,
\* cyclic input included, makes EncodeAsETF return ErrEncodeRecursionDepthExceeded
\* (and so return at all).
C1_DepthBudgetEnforced ==
  (last.op = "EncodeAsETF" /\ DeeperThan(last.v, DefaultEncodeRecursionDepth))
    => last.err = "ErrEncodeRecursionDepthExceeded"

\* C2: whatever slice NewEncoder was given, the stream starts with the version
\* byte 131 at offset 0; NewEncoder then EncodeAsETF(true) leaves exactly
\* [131, 119, 4, 't','r','u','e'], and NewEncoder then EncodeAsETF(uint8(200))
\* leaves exactly [131, 97, 200].
C2_VersionByteFirst ==
  /\ At(buf, 0) = TermFormatVersion
  /\ FirstEncoded(BoolV(TRUE)) => buf = Lit(<< 131, 119, 4, 116, 114, 117, 101 >>)
  /\ FirstEncoded(Uint8V(200)) => buf = Lit(<< 131, 97, 200 >>)

\* C3: a null value (untyped nil, nil interface, typed nil pointer), at top level
\* or as the one member of a map or struct, is encoded as the nil atom
\* [119, 3, 'n','i','l'] with no error and no panic.
C3_NullIsNilAtom ==
  LET IsNull(v) == v \in { NilV, NilPtrV }
      v == last.v
  IN last.op = "EncodeAsETF" =>
       /\ IsNull(v) => (last.err = "nil" /\ last.out = nilBuf)
       /\ (v.kind = "map" /\ v.keykind = "string" /\ Len(v.pairs) = 1
             /\ IsNull(v.pairs[1].val))
            => (last.err = "nil"
                  /\ Drop(last.out, BLen(last.out) - BLen(nilBuf)) = nilBuf)
       /\ (v.kind = "struct" /\ Len(FieldPairs(v.fields, 1)) = 1
             /\ IsNull(FieldPairs(v.fields, 1)[1].val))
            => (last.err = "nil"
                  /\ Drop(last.out, BLen(last.out) - BLen(nilBuf)) = nilBuf)

\* C4: an integer of any integer type but uint8 is encoded, successfully, as a big
\* integer term: tag, count = the smallest number of bytes that holds |v|, sign
\* byte 0 for v >= 0 and 1 for v < 0, and exactly count magnitude bytes that read
\* little-endian as |v|.
C4_BigIntegerPayload ==
  Encoded(BigKinds) =>
    LET mag == Magnitude(last.v) IN
    /\ last.err = "nil"
    /\ BLen(last.out) = 3 + Len(mag)
    /\ At(last.out, 0) \in { SmallBigExt, LargeBigExt }
    /\ At(last.out, 1) = Len(mag)
    /\ At(last.out, 2) = (IF Negative(last.v) THEN 1 ELSE 0)
    /\ Drop(last.out, 3) = Lit(mag)

\* C5: the tag of a big integer term written depends on the magnitude alone: 110
\* when the magnitude needs at most 4 bytes, 111 only when it needs more; the same
\* number in another integer type gives the same bytes.
C5_TagByMagnitude ==
  (Encoded(BigKinds) /\ last.err = "nil") =>
    /\ At(last.out, 0) = (IF Len(Magnitude(last.v)) <= 4 THEN SmallBigExt ELSE LargeBigExt)
    /\ \A w \in SignedValues \cup UnsignedValues :
         (Negative(w) = Negative(last.v) /\ Magnitude(w) = Magnitude(last.v)
            /\ Encodable(w))
           => Outs(w) = { last.out }

\* C6: an array or slice is encoded as [108] ++ 4-byte big-endian length ++ its
\* elements' encodings in index order ++ [106]; the empty one as
\* [108, 0,0,0,0, 106].
C6_ListForm ==
  Encoded({"array", "slice"}) =>
    /\ last.err = "nil"
    /\ last.out \in ListForms(last.v.elems)
    /\ last.v.elems = << >> => last.out = Lit(<< 108, 0, 0, 0, 0, 106 >>)

\* C7: a string is encoded as a Binary term when AlwaysEncodeStringsAsBinary is
\* set; otherwise as a String term when shorter than 65536 bytes and as a Binary
\* term again when not; never as a List term, never a failure.
C7_StringForm ==
  Encoded({"string"}) =>
    /\ last.err = "nil"
    /\ last.out = (IF AlwaysEncodeStringsAsBinary \/ BLen(last.v.str) >= 65536
                   THEN BinaryTerm(last.v.str)
                   ELSE StringTerm(last.v.str))

\* C8: a struct is encoded as a Map term with one pair per field not tagged "-":
\* the header counts those fields, each key is the field's tag or else its name,
\* each value the encoding of the field's value; also when two fields get the
\* same key and when a field is unexported.
C8_StructAsMap ==
  Encoded({"struct"}) =>
    /\ last.err = "nil"
    /\ last.out \in MapForms(FieldPairs(last.v.fields, 1))

\* C9: a string-keyed map whose values are encodable is encoded as [116] ++ 4-byte
\* big-endian len(m) ++ exactly len(m) pairs, each the encoding of a key
\* immediately followed by the encoding of its value, in some order.
C9_MapForm ==
  (Encoded({"map"}) /\ last.v.keykind = "string"
     /\ \A i \in 1..Len(last.v.pairs) : Encodable(last.v.pairs[i].val))
    => /\ last.err = "nil"
       /\ last.out \in MapForms(last.v.pairs)

\* C10: EncodeAsETF(uint8(v)), v in 0..255, appends exactly the two bytes [97, v]
\* to the buffer and returns (2, nil).
C10_Uint8Form ==
  Encoded({"uint8"}) =>
    /\ last.out = Lit(<< 97, last.v.le[1] >>)
    /\ Drop(buf, BLen(buf) - 2) = Lit(<< 97, last.v.le[1] >>)
    /\ last.n = 2
    /\ last.err = "nil"

\* C10's case: uint8(200) was encoded.
C10_Witness == Encoded({"uint8"}) /\ last.v.le[1] = 200 /\ last.n = 2

\* C11: over any sequence of EncodeAsETF, EncodeAsBinaryETF and Write calls,
\* failed ones included, the buffer before a call is a prefix of the buffer
\* after it, and everything the call wrote before it failed is still at the end
\* of the buffer.
C11_AppendOnly == [][IsPrefix(buf, buf') /\ buf' = Cat(buf, last'.out)]_vars

\* C11's case: a second call on the encoder failed after it had written bytes,
\* and they are at the end of the buffer.
C11_Witness ==
  /\ calls = 2
  /\ last.err # "nil"
  /\ last.out # << >>
  /\ Drop(buf, BLen(buf) - BLen(last.out)) = last.out

\* C12: a call of EncodeAsETF or EncodeAsBinaryETF that returns a nil error
\* returns as n the number of bytes it appended to the buffer.
C12_CountIsBytesAppended ==
  (last.op \in {"EncodeAsETF", "EncodeAsBinaryETF"} /\ last.err = "nil")
    => last.n = BLen(last.out)

====
